---- MODULE Spec2Model ----
(***************************************************************************)
(* A model of randomart.py: the "drunken bishop" fingerprint visualizer.   *)
(* A Python str is a sequence of characters, each written as a string: a   *)
(* printable ASCII character and tab, line feed, form feed and carriage    *)
(* return as themselves ("a", "\n"), every other character by its code     *)
(* point ("U+000B" is the vertical tab, "U+FF15" the fullwidth digit five). *)
(* None is the empty set and a present optional value v is {v}.  A         *)
(* collections.Counter is a function whose domain is the set of keys       *)
(* stored so far.                                                          *)
(***************************************************************************)
EXTENDS Integers, Sequences, FiniteSets, TLC

VARIABLES debug,                          \* __debug__: the interpreter runs assert statements
          hashalg, room_size, start,      \* the fields of the RandomArt object
          pc,                             \* where the current __call__ stands
          hex_string,                     \* the argument of the current call
          directions, i,                  \* hex_to_dirs' result, moves consumed
          current_position, room,         \* get_room's locals
          positions,                      \* history: positions get_position returned
          result, err,                    \* what __call__ returned / raised
          first                           \* history: the first completed call

vars == <<debug, hashalg, room_size, start, pc, hex_string, directions, i,
          current_position, room, positions, result, err, first>>

(***************************************************************************)
(* Bounds of the model.                                                    *)
(***************************************************************************)
MaxWidth == 3
MaxHeight == 2
MaxHexLen == 4
MaxRawLen == 4
MaxLabelLen == 3
MaxLongLen == 10
MaxRepeatLen == 2

(***************************************************************************)
(* Generic helpers for sequences.                                          *)
(***************************************************************************)
Min(a, b) == IF a < b THEN a ELSE b

Max(a, b) == IF a > b THEN a ELSE b

Repeat(c, n) == [k \in 1..n |-> c]

Reverse(s) == [k \in 1..Len(s) |-> s[Len(s) + 1 - k]]

RECURSIVE Flatten(_)
Flatten(ss) == IF ss = <<>> THEN <<>> ELSE Head(ss) \o Flatten(Tail(ss))

RECURSIVE SeqsUpTo(_, _)
SeqsUpTo(S, n) ==
    IF n = 0 THEN { <<>> }
    ELSE LET shorter == SeqsUpTo(S, n - 1)
         IN  shorter \cup { Append(s, c) : s \in { t \in shorter : Len(t) = n - 1 }, c \in S }

\* s[k:k+2] for k in range(0, len(s), 2)
Chunks2(s) ==
    [k \in 1..((Len(s) + 1) \div 2) |-> SubSeq(s, 2 * k - 1, Min(2 * k, Len(s)))]

(***************************************************************************)
(* The module constants.                                                   *)
(***************************************************************************)
NW == <<-1, -1>>

NE == <<1, -1>>

SW == <<-1, 1>>

SE == <<1, 1>>

(***************************************************************************)
(* int(pair, 16): surrounding whitespace is stripped, one sign is allowed, *)
(* then an optional 0x prefix, then digits that single underscores may     *)
(* separate.  Anything else raises ValueError.  A digit is one of          *)
(* 0-9, a-f, A-F or any decimal digit of another script, which counts as   *)
(* the ASCII digit of its value; whitespace is every character that        *)
(* str.isspace knows, but for the four separators U+001C..U+001F.          *)
(***************************************************************************)
LowerDigits == <<"0", "1", "2", "3", "4", "5", "6", "7", "8", "9",
                 "a", "b", "c", "d", "e", "f">>

UpperDigits == <<"0", "1", "2", "3", "4", "5", "6", "7", "8", "9",
                 "A", "B", "C", "D", "E", "F">>

AsciiHexDigits == { LowerDigits[k] : k \in 1..16 } \cup { UpperDigits[k] : k \in 1..16 }

\* The decimal digits outside ASCII: one row for each script, from its zero
\* to its nine.
DecimalDigitBlocks == <<
    <<"U+0660", "U+0661", "U+0662", "U+0663", "U+0664", "U+0665", "U+0666", "U+0667", "U+0668", "U+0669">>,
    <<"U+06F0", "U+06F1", "U+06F2", "U+06F3", "U+06F4", "U+06F5", "U+06F6", "U+06F7", "U+06F8", "U+06F9">>,
    <<"U+07C0", "U+07C1", "U+07C2", "U+07C3", "U+07C4", "U+07C5", "U+07C6", "U+07C7", "U+07C8", "U+07C9">>,
    <<"U+0966", "U+0967", "U+0968", "U+0969", "U+096A", "U+096B", "U+096C", "U+096D", "U+096E", "U+096F">>,
    <<"U+09E6", "U+09E7", "U+09E8", "U+09E9", "U+09EA", "U+09EB", "U+09EC", "U+09ED", "U+09EE", "U+09EF">>,
    <<"U+0A66", "U+0A67", "U+0A68", "U+0A69", "U+0A6A", "U+0A6B", "U+0A6C", "U+0A6D", "U+0A6E", "U+0A6F">>,
    <<"U+0AE6", "U+0AE7", "U+0AE8", "U+0AE9", "U+0AEA", "U+0AEB", "U+0AEC", "U+0AED", "U+0AEE", "U+0AEF">>,
    <<"U+0B66", "U+0B67", "U+0B68", "U+0B69", "U+0B6A", "U+0B6B", "U+0B6C", "U+0B6D", "U+0B6E", "U+0B6F">>,
    <<"U+0BE6", "U+0BE7", "U+0BE8", "U+0BE9", "U+0BEA", "U+0BEB", "U+0BEC", "U+0BED", "U+0BEE", "U+0BEF">>,
    <<"U+0C66", "U+0C67", "U+0C68", "U+0C69", "U+0C6A", "U+0C6B", "U+0C6C", "U+0C6D", "U+0C6E", "U+0C6F">>,
    <<"U+0CE6", "U+0CE7", "U+0CE8", "U+0CE9", "U+0CEA", "U+0CEB", "U+0CEC", "U+0CED", "U+0CEE", "U+0CEF">>,
    <<"U+0D66", "U+0D67", "U+0D68", "U+0D69", "U+0D6A", "U+0D6B", "U+0D6C", "U+0D6D", "U+0D6E", "U+0D6F">>,
    <<"U+0DE6", "U+0DE7", "U+0DE8", "U+0DE9", "U+0DEA", "U+0DEB", "U+0DEC", "U+0DED", "U+0DEE", "U+0DEF">>,
    <<"U+0E50", "U+0E51", "U+0E52", "U+0E53", "U+0E54", "U+0E55", "U+0E56", "U+0E57", "U+0E58", "U+0E59">>,
    <<"U+0ED0", "U+0ED1", "U+0ED2", "U+0ED3", "U+0ED4", "U+0ED5", "U+0ED6", "U+0ED7", "U+0ED8", "U+0ED9">>,
    <<"U+0F20", "U+0F21", "U+0F22", "U+0F23", "U+0F24", "U+0F25", "U+0F26", "U+0F27", "U+0F28", "U+0F29">>,
    <<"U+1040", "U+1041", "U+1042", "U+1043", "U+1044", "U+1045", "U+1046", "U+1047", "U+1048", "U+1049">>,
    <<"U+1090", "U+1091", "U+1092", "U+1093", "U+1094", "U+1095", "U+1096", "U+1097", "U+1098", "U+1099">>,
    <<"U+17E0", "U+17E1", "U+17E2", "U+17E3", "U+17E4", "U+17E5", "U+17E6", "U+17E7", "U+17E8", "U+17E9">>,
    <<"U+1810", "U+1811", "U+1812", "U+1813", "U+1814", "U+1815", "U+1816", "U+1817", "U+1818", "U+1819">>,
    <<"U+1946", "U+1947", "U+1948", "U+1949", "U+194A", "U+194B", "U+194C", "U+194D", "U+194E", "U+194F">>,
    <<"U+19D0", "U+19D1", "U+19D2", "U+19D3", "U+19D4", "U+19D5", "U+19D6", "U+19D7", "U+19D8", "U+19D9">>,
    <<"U+1A80", "U+1A81", "U+1A82", "U+1A83", "U+1A84", "U+1A85", "U+1A86", "U+1A87", "U+1A88", "U+1A89">>,
    <<"U+1A90", "U+1A91", "U+1A92", "U+1A93", "U+1A94", "U+1A95", "U+1A96", "U+1A97", "U+1A98", "U+1A99">>,
    <<"U+1B50", "U+1B51", "U+1B52", "U+1B53", "U+1B54", "U+1B55", "U+1B56", "U+1B57", "U+1B58", "U+1B59">>,
    <<"U+1BB0", "U+1BB1", "U+1BB2", "U+1BB3", "U+1BB4", "U+1BB5", "U+1BB6", "U+1BB7", "U+1BB8", "U+1BB9">>,
    <<"U+1C40", "U+1C41", "U+1C42", "U+1C43", "U+1C44", "U+1C45", "U+1C46", "U+1C47", "U+1C48", "U+1C49">>,
    <<"U+1C50", "U+1C51", "U+1C52", "U+1C53", "U+1C54", "U+1C55", "U+1C56", "U+1C57", "U+1C58", "U+1C59">>,
    <<"U+A620", "U+A621", "U+A622", "U+A623", "U+A624", "U+A625", "U+A626", "U+A627", "U+A628", "U+A629">>,
    <<"U+A8D0", "U+A8D1", "U+A8D2", "U+A8D3", "U+A8D4", "U+A8D5", "U+A8D6", "U+A8D7", "U+A8D8", "U+A8D9">>,
    <<"U+A900", "U+A901", "U+A902", "U+A903", "U+A904", "U+A905", "U+A906", "U+A907", "U+A908", "U+A909">>,
    <<"U+A9D0", "U+A9D1", "U+A9D2", "U+A9D3", "U+A9D4", "U+A9D5", "U+A9D6", "U+A9D7", "U+A9D8", "U+A9D9">>,
    <<"U+A9F0", "U+A9F1", "U+A9F2", "U+A9F3", "U+A9F4", "U+A9F5", "U+A9F6", "U+A9F7", "U+A9F8", "U+A9F9">>,
    <<"U+AA50", "U+AA51", "U+AA52", "U+AA53", "U+AA54", "U+AA55", "U+AA56", "U+AA57", "U+AA58", "U+AA59">>,
    <<"U+ABF0", "U+ABF1", "U+ABF2", "U+ABF3", "U+ABF4", "U+ABF5", "U+ABF6", "U+ABF7", "U+ABF8", "U+ABF9">>,
    <<"U+FF10", "U+FF11", "U+FF12", "U+FF13", "U+FF14", "U+FF15", "U+FF16", "U+FF17", "U+FF18", "U+FF19">>,
    <<"U+104A0", "U+104A1", "U+104A2", "U+104A3", "U+104A4", "U+104A5", "U+104A6", "U+104A7", "U+104A8", "U+104A9">>,
    <<"U+10D30", "U+10D31", "U+10D32", "U+10D33", "U+10D34", "U+10D35", "U+10D36", "U+10D37", "U+10D38", "U+10D39">>,
    <<"U+11066", "U+11067", "U+11068", "U+11069", "U+1106A", "U+1106B", "U+1106C", "U+1106D", "U+1106E", "U+1106F">>,
    <<"U+110F0", "U+110F1", "U+110F2", "U+110F3", "U+110F4", "U+110F5", "U+110F6", "U+110F7", "U+110F8", "U+110F9">>,
    <<"U+11136", "U+11137", "U+11138", "U+11139", "U+1113A", "U+1113B", "U+1113C", "U+1113D", "U+1113E", "U+1113F">>,
    <<"U+111D0", "U+111D1", "U+111D2", "U+111D3", "U+111D4", "U+111D5", "U+111D6", "U+111D7", "U+111D8", "U+111D9">>,
    <<"U+112F0", "U+112F1", "U+112F2", "U+112F3", "U+112F4", "U+112F5", "U+112F6", "U+112F7", "U+112F8", "U+112F9">>,
    <<"U+11450", "U+11451", "U+11452", "U+11453", "U+11454", "U+11455", "U+11456", "U+11457", "U+11458", "U+11459">>,
    <<"U+114D0", "U+114D1", "U+114D2", "U+114D3", "U+114D4", "U+114D5", "U+114D6", "U+114D7", "U+114D8", "U+114D9">>,
    <<"U+11650", "U+11651", "U+11652", "U+11653", "U+11654", "U+11655", "U+11656", "U+11657", "U+11658", "U+11659">>,
    <<"U+116C0", "U+116C1", "U+116C2", "U+116C3", "U+116C4", "U+116C5", "U+116C6", "U+116C7", "U+116C8", "U+116C9">>,
    <<"U+11730", "U+11731", "U+11732", "U+11733", "U+11734", "U+11735", "U+11736", "U+11737", "U+11738", "U+11739">>,
    <<"U+118E0", "U+118E1", "U+118E2", "U+118E3", "U+118E4", "U+118E5", "U+118E6", "U+118E7", "U+118E8", "U+118E9">>,
    <<"U+11950", "U+11951", "U+11952", "U+11953", "U+11954", "U+11955", "U+11956", "U+11957", "U+11958", "U+11959">>,
    <<"U+11C50", "U+11C51", "U+11C52", "U+11C53", "U+11C54", "U+11C55", "U+11C56", "U+11C57", "U+11C58", "U+11C59">>,
    <<"U+11D50", "U+11D51", "U+11D52", "U+11D53", "U+11D54", "U+11D55", "U+11D56", "U+11D57", "U+11D58", "U+11D59">>,
    <<"U+11DA0", "U+11DA1", "U+11DA2", "U+11DA3", "U+11DA4", "U+11DA5", "U+11DA6", "U+11DA7", "U+11DA8", "U+11DA9">>,
    <<"U+16A60", "U+16A61", "U+16A62", "U+16A63", "U+16A64", "U+16A65", "U+16A66", "U+16A67", "U+16A68", "U+16A69">>,
    <<"U+16AC0", "U+16AC1", "U+16AC2", "U+16AC3", "U+16AC4", "U+16AC5", "U+16AC6", "U+16AC7", "U+16AC8", "U+16AC9">>,
    <<"U+16B50", "U+16B51", "U+16B52", "U+16B53", "U+16B54", "U+16B55", "U+16B56", "U+16B57", "U+16B58", "U+16B59">>,
    <<"U+1D7CE", "U+1D7CF", "U+1D7D0", "U+1D7D1", "U+1D7D2", "U+1D7D3", "U+1D7D4", "U+1D7D5", "U+1D7D6", "U+1D7D7">>,
    <<"U+1D7D8", "U+1D7D9", "U+1D7DA", "U+1D7DB", "U+1D7DC", "U+1D7DD", "U+1D7DE", "U+1D7DF", "U+1D7E0", "U+1D7E1">>,
    <<"U+1D7E2", "U+1D7E3", "U+1D7E4", "U+1D7E5", "U+1D7E6", "U+1D7E7", "U+1D7E8", "U+1D7E9", "U+1D7EA", "U+1D7EB">>,
    <<"U+1D7EC", "U+1D7ED", "U+1D7EE", "U+1D7EF", "U+1D7F0", "U+1D7F1", "U+1D7F2", "U+1D7F3", "U+1D7F4", "U+1D7F5">>,
    <<"U+1D7F6", "U+1D7F7", "U+1D7F8", "U+1D7F9", "U+1D7FA", "U+1D7FB", "U+1D7FC", "U+1D7FD", "U+1D7FE", "U+1D7FF">>,
    <<"U+1E140", "U+1E141", "U+1E142", "U+1E143", "U+1E144", "U+1E145", "U+1E146", "U+1E147", "U+1E148", "U+1E149">>,
    <<"U+1E2F0", "U+1E2F1", "U+1E2F2", "U+1E2F3", "U+1E2F4", "U+1E2F5", "U+1E2F6", "U+1E2F7", "U+1E2F8", "U+1E2F9">>,
    <<"U+1E950", "U+1E951", "U+1E952", "U+1E953", "U+1E954", "U+1E955", "U+1E956", "U+1E957", "U+1E958", "U+1E959">>,
    <<"U+1FBF0", "U+1FBF1", "U+1FBF2", "U+1FBF3", "U+1FBF4", "U+1FBF5", "U+1FBF6", "U+1FBF7", "U+1FBF8", "U+1FBF9">>>>

UnicodeDigits == { DecimalDigitBlocks[b][k] : b \in 1..Len(DecimalDigitBlocks), k \in 1..10 }

HexDigits == AsciiHexDigits \cup UnicodeDigits

DigitValue(c) ==
    IF c \in AsciiHexDigits
    THEN (CHOOSE k \in 1..16 : LowerDigits[k] = c \/ UpperDigits[k] = c) - 1
    ELSE (CHOOSE k \in 1..10 : \E b \in 1..Len(DecimalDigitBlocks) :
                                  DecimalDigitBlocks[b][k] = c) - 1

Whitespace == {
    "\t", "\n", "U+000B", "\f", "\r", " ", "U+0085", "U+00A0", "U+1680",
    "U+2000", "U+2001", "U+2002", "U+2003", "U+2004", "U+2005", "U+2006",
    "U+2007", "U+2008", "U+2009", "U+200A", "U+2028", "U+2029", "U+202F",
    "U+205F", "U+3000"}

RECURSIVE LStrip(_)
LStrip(s) == IF s # <<>> /\ Head(s) \in Whitespace THEN LStrip(Tail(s)) ELSE s

Strip(s) == Reverse(LStrip(Reverse(LStrip(s))))

DigitsOk(d) ==
    /\ d # <<>>
    /\ d[1] \in HexDigits
    /\ d[Len(d)] \in HexDigits
    /\ \A k \in 1..Len(d) : d[k] \in HexDigits \cup {"_"}
    /\ \A k \in 1..(Len(d) - 1) : ~(d[k] = "_" /\ d[k + 1] = "_")

RECURSIVE DigitsValue(_, _)
DigitsValue(d, acc) ==
    IF d = <<>> THEN acc
    ELSE IF Head(d) = "_" THEN DigitsValue(Tail(d), acc)
    ELSE DigitsValue(Tail(d), 16 * acc + DigitValue(Head(d)))

IntBase16(s) ==
    LET t == Strip(s)
        neg == t # <<>> /\ t[1] = "-"
        u == IF t # <<>> /\ t[1] \in {"+", "-"} THEN Tail(t) ELSE t
        prefixed == Len(u) >= 2 /\ u[1] = "0" /\ u[2] \in {"x", "X"}
        v == IF prefixed THEN SubSeq(u, 3, Len(u)) ELSE u
        d == IF prefixed /\ v # <<>> /\ v[1] = "_" THEN Tail(v) ELSE v
    IN  IF DigitsOk(d)
        THEN [ok |-> TRUE, val |-> IF neg THEN -DigitsValue(d, 0) ELSE DigitsValue(d, 0)]
        ELSE [ok |-> FALSE, val |-> 0]

(***************************************************************************)
(* bin(decimal)[2:].zfill(8)                                               *)
(***************************************************************************)
RECURSIVE Bits(_)
Bits(n) == IF n < 2 THEN <<LowerDigits[n + 1]>>
           ELSE Append(Bits(n \div 2), LowerDigits[(n % 2) + 1])

Bin(n) == IF n < 0 THEN <<"-", "0", "b">> \o Bits(-n) ELSE <<"0", "b">> \o Bits(n)

ZFill(s, width) ==
    IF Len(s) >= width THEN s
    ELSE IF s # <<>> /\ s[1] \in {"+", "-"}
         THEN <<s[1]>> \o Repeat("0", width - Len(s)) \o Tail(s)
         ELSE Repeat("0", width - Len(s)) \o s

BinByte(decimal) == ZFill(SubSeq(Bin(decimal), 3, Len(Bin(decimal))), 8)

(***************************************************************************)
(* hex_to_dirs                                                             *)
(***************************************************************************)
direction_map ==
    (<<"0", "0">> :> NW) @@ (<<"0", "1">> :> NE) @@
    (<<"1", "0">> :> SW) @@ (<<"1", "1">> :> SE)

Raise(e) == [ok |-> FALSE, err |-> e, dirs |-> <<>>]

\* Mutant: the four bit pairs of a byte are left in their written order.
byte_split_unreversed(byte) == Chunks2(byte)

\* byte_split = [byte[i:i + 2] ...]; byte_split.reverse()
byte_split(byte) == Reverse(Chunks2(byte))

\* Lines 27-49: what hex_to_dirs does once its assertion has passed.
DecodePairs(h) ==
    LET hexpairs == Chunks2(h)
        ints == [k \in 1..Len(hexpairs) |-> IntBase16(hexpairs[k])]
    IN  IF \E k \in 1..Len(ints) : ~ints[k].ok THEN Raise("ValueError")
        ELSE LET bin_bytes == [k \in 1..Len(ints) |-> BinByte(ints[k].val)]
                 pairs == Flatten([k \in 1..Len(bin_bytes) |-> byte_split(bin_bytes[k])])
             IN  IF \E j \in 1..Len(pairs) : pairs[j] \notin DOMAIN direction_map
                 THEN Raise("KeyError")
                 ELSE [ok |-> TRUE, err |-> "none",
                       dirs |-> [j \in 1..Len(pairs) |-> direction_map[pairs[j]]]]

\* The assert statement of line 25 runs when __debug__ is true, which it is
\* unless the interpreter was started with -O or PYTHONOPTIMIZE.
hex_to_dirs(h, assertions) ==
    IF assertions /\ Len(h) % 2 # 0 THEN Raise("AssertionError") ELSE DecodePairs(h)

(***************************************************************************)
(* get_coin_sym                                                            *)
(***************************************************************************)
CoinSyms == <<" ", ".", "o", "+", "=", "*", "B", "O", "X", "@", "%", "&", "#",
              "/", "^", "S", "E">>

get_coin_sym(coins) == IF coins \in 0..16 THEN CoinSyms[coins + 1] ELSE "!"

(***************************************************************************)
(* The Counter.                                                            *)
(***************************************************************************)
Counter == [p \in {} |-> 0]

Count(r, p) == IF p \in DOMAIN r THEN r[p] ELSE 0

SetCount(r, p, n) == [q \in (DOMAIN r) \cup {p} |-> IF q = p THEN n ELSE r[q]]

(***************************************************************************)
(* RandomArt.__init__: no argument is validated.                           *)
(***************************************************************************)
RandomArtInit(h, size, st) ==
    [hashalg |-> h,
     room_size |-> size,
     start |-> IF st # {} THEN CHOOSE p \in st : TRUE
               ELSE <<size[1] \div 2, size[2] \div 2>>]

(***************************************************************************)
(* RandomArt.get_position                                                  *)
(***************************************************************************)
\* Mutant: the bishop is stopped at the far walls only.
get_position_noFloor(size, position, move) ==
    <<Min(position[1] + move[1], size[1] - 1), Min(position[2] + move[2], size[2] - 1)>>

\* Mutant: a move that a wall blocks on one axis is not made at all.
get_position_joint(size, position, move) ==
    LET new_x == position[1] + move[1]
        new_y == position[2] + move[2]
    IN  IF new_x \in 0..(size[1] - 1) /\ new_y \in 0..(size[2] - 1)
        THEN <<new_x, new_y>>
        ELSE <<Max(Min(position[1], size[1] - 1), 0), Max(Min(position[2], size[2] - 1), 0)>>

get_position(size, position, move) ==
    LET max_x == size[1] - 1
        max_y == size[2] - 1
        new_x == position[1] + move[1]
        new_y == position[2] + move[2]
    IN  <<Max(Min(new_x, max_x), 0), Max(Min(new_y, max_y), 0)>>

(***************************************************************************)
(* RandomArt.display                                                       *)
(***************************************************************************)
\* Mutant: the same padding on both sides, whatever is left over.
CenterEvenPad(s, width, fill) ==
    IF Len(s) >= width THEN s
    ELSE Repeat(fill, (width - Len(s)) \div 2) \o s \o Repeat(fill, (width - Len(s)) \div 2)

\* str.center(width, fillchar)
Center(s, width, fill) ==
    IF Len(s) >= width THEN s
    ELSE LET marg == width - Len(s)
             left == (marg \div 2) + (IF marg % 2 = 1 /\ width % 2 = 1 THEN 1 ELSE 0)
         IN  Repeat(fill, left) \o s \o Repeat(fill, marg - left)

display(h, size, r) ==
    LET room_x == size[1]
        room_y == size[2]
        label == CHOOSE l \in h : TRUE
        bottom == IF h # {} /\ label # <<>>
                  THEN <<"+">> \o Center(<<"[">> \o label \o <<"]">>, room_x, "-") \o <<"+">>
                  ELSE <<"+">> \o Repeat("-", room_x) \o <<"+">>
        top == <<"+">> \o Repeat("-", room_x) \o <<"+", "\n">>
        row(y) == <<"|">> \o [x \in 1..room_x |-> get_coin_sym(Count(r, <<x - 1, y>>))]
                         \o <<"|", "\n">>
    IN  top \o Flatten([y \in 1..room_y |-> row(y - 1)]) \o bottom

(***************************************************************************)
(* The state machine.                                                      *)
(***************************************************************************)
Constructed(modes, labels, sizes, starts) ==
    /\ debug \in modes
    /\ \E h \in labels, size \in sizes, st \in starts :
          LET self == RandomArtInit(h, size, st)
          IN  /\ hashalg = self.hashalg
              /\ room_size = self.room_size
              /\ start = self.start
    /\ pc = "idle"
    /\ hex_string = <<>>
    /\ directions = <<>>
    /\ i = 0
    /\ current_position = start
    /\ room = Counter
    /\ positions = <<>>
    /\ result = {}
    /\ err = "none"
    /\ first = {}

\* __call__ enters get_room: the locals are set, hex_to_dirs runs or raises.
Call(h) ==
    /\ hex_string' = h
    /\ room' = Counter
    /\ current_position' = start
    /\ LET d == hex_to_dirs(h, debug)
       IN  /\ directions' = d.dirs
           /\ err' = d.err
           /\ pc' = IF d.ok THEN "walking" ELSE "raised"
    /\ i' = 0
    /\ positions' = <<>>
    /\ result' = {}
    /\ UNCHANGED <<debug, hashalg, room_size, start, first>>

\* A caller that holds the object calls it with one of the inputs.
CallWith(inputs) == pc = "idle" /\ \E h \in inputs : Call(h)

\* Mutant: the walk moves the object's own start along with it.
StepMovingStart ==
    /\ pc = "walking"
    /\ i < Len(directions)
    /\ LET p == get_position(room_size, current_position, directions[i + 1])
       IN  /\ current_position' = p
           /\ start' = p
           /\ room' = SetCount(room, p, Count(room, p) + 1)
           /\ positions' = Append(positions, p)
    /\ i' = i + 1
    /\ UNCHANGED <<debug, hashalg, room_size, pc, hex_string, directions, result, err, first>>

\* One iteration of get_room's loop.
Step ==
    /\ pc = "walking"
    /\ i < Len(directions)
    /\ LET p == get_position(room_size, current_position, directions[i + 1])
       IN  /\ current_position' = p
           /\ room' = SetCount(room, p, Count(room, p) + 1)
           /\ positions' = Append(positions, p)
    /\ i' = i + 1
    /\ UNCHANGED <<debug, hashalg, room_size, start, pc, hex_string, directions, result, err, first>>

\* Mutant: the end cell is set before the start cell.
SentinelEndFirst ==
    /\ pc = "walking"
    /\ i = Len(directions)
    /\ room' = SetCount(SetCount(room, current_position, 16), start, 15)
    /\ pc' = "got_room"
    /\ UNCHANGED <<debug, hashalg, room_size, start, hex_string, directions, i,
                   current_position, positions, result, err, first>>

\* The loop is over: the start and end cells are set, get_room returns.
Sentinel ==
    /\ pc = "walking"
    /\ i = Len(directions)
    /\ room' = SetCount(SetCount(room, start, 15), current_position, 16)
    /\ pc' = "got_room"
    /\ UNCHANGED <<debug, hashalg, room_size, start, hex_string, directions, i,
                   current_position, positions, result, err, first>>

\* __call__ returns display(room).
Display ==
    /\ pc = "got_room"
    /\ result' = {display(hashalg, room_size, room)}
    /\ pc' = "done"
    /\ UNCHANGED <<debug, hashalg, room_size, start, hex_string, directions, i,
                   current_position, room, positions, err, first>>

\* The caller takes the answer (or the exception) and the frame of the call is
\* gone.  The caller remembers its first answer, and whether a call that failed
\* or had another argument came after it.
Release ==
    /\ pc \in {"done", "raised"}
    /\ first' = IF first = {}
                THEN IF pc = "done"
                     THEN {[hex |-> hex_string, out |-> result, other |-> FALSE]}
                     ELSE first
                ELSE LET f == CHOOSE r \in first : TRUE
                     IN  IF pc = "raised" \/ hex_string # f.hex
                         THEN {[f EXCEPT !.other = TRUE]}
                         ELSE first
    /\ pc' = "idle"
    /\ hex_string' = <<>>
    /\ directions' = <<>>
    /\ i' = 0
    /\ current_position' = start
    /\ room' = Counter
    /\ positions' = <<>>
    /\ result' = {}
    /\ err' = "none"
    /\ UNCHANGED <<debug, hashalg, room_size, start>>

(***************************************************************************)
(* Spec: one call on a room of any size, valid or not, from any start; the *)
(* hex digits of the input give all four moves.  Assertions are on.        *)
(***************************************************************************)
WalkAlphabet == {"0", "6", "F"}

HexInputs == SeqsUpTo(WalkAlphabet, MaxHexLen)

Sizes == (0..MaxWidth) \X (0..MaxHeight)

Starts == { {} } \cup { {p} : p \in (0..MaxWidth) \X (0..MaxHeight) }

Init == Constructed({TRUE}, { {} }, Sizes, Starts)

Next == CallWith(HexInputs) \/ Step \/ Sentinel \/ Display

Spec == Init /\ [][Next]_vars

(***************************************************************************)
(* SpecDecode: one call on the default room; the input is any string over  *)
(* hex digits of both cases and characters that are not hex digits: signs, *)
(* letters, whitespace (ASCII and not) and a digit of another script.  The *)
(* interpreter runs with assertions or without.                            *)
(***************************************************************************)
DEFAULT_ROOM_SIZE == <<17, 9>>

RawAlphabet == {"0", "1", "b", "E", "+", "-", " ", "g", "x", "U+000B", "U+FF15"}

RawInputs == SeqsUpTo(RawAlphabet, MaxRawLen)

InitDecode == Constructed(BOOLEAN, { {<<>>} }, {DEFAULT_ROOM_SIZE}, { {} })

NextDecode == CallWith(RawInputs) \/ Step \/ Sentinel \/ Display

SpecDecode == InitDecode /\ [][NextDecode]_vars

(***************************************************************************)
(* SpecDisplay: one call on rooms of positive size under every label:      *)
(* none, empty, short, too long for the room, holding a line break.        *)
(***************************************************************************)
LabelAlphabet == {"a", "\n"}

Labels == { {} } \cup { {l} : l \in SeqsUpTo(LabelAlphabet, MaxLabelLen) }

DisplaySizes == (1..(MaxWidth + 2)) \X (1..MaxHeight)

DisplayInputs == SeqsUpTo({"0", "F"}, MaxRepeatLen)

InitDisplay == Constructed(BOOLEAN, Labels, DisplaySizes, { {} })

NextDisplay == CallWith(DisplayInputs) \/ Step \/ Sentinel \/ Display

SpecDisplay == InitDisplay /\ [][NextDisplay]_vars

(***************************************************************************)
(* SpecRepeat: call after call on the same object.                         *)
(***************************************************************************)
RepeatInputs == SeqsUpTo(WalkAlphabet, MaxRepeatLen)

InitRepeat ==
    Constructed(BOOLEAN, { {}, {<<"a">>} }, {<<2, 2>>, <<3, 2>>}, { {}, {<<0, 0>>} })

NextRepeat ==
    CallWith(RepeatInputs) \/ Step \/ Sentinel \/ Display \/ Release

SpecRepeat == InitRepeat /\ [][NextRepeat]_vars

(***************************************************************************)
(* SpecLong: one call with an input long enough for a cell to be visited   *)
(* more often than the glyph table has entries.                            *)
(***************************************************************************)
LongInputs == SeqsUpTo({"0", "F"}, MaxLongLen)

InitLong == Constructed({TRUE}, { {} }, {<<2, 1>>, <<2, 2>>}, { {} })

NextLong == CallWith(LongInputs) \/ Step \/ Sentinel \/ Display

SpecLong == InitLong /\ [][NextLong]_vars

(***************************************************************************)
(* What the properties below speak of.                                     *)
(***************************************************************************)
InRoom(p) == p[1] \in 0..(room_size[1] - 1) /\ p[2] \in 0..(room_size[2] - 1)

RoomIsValid == room_size[1] > 0 /\ room_size[2] > 0

\* How often the walk has come to cell p.
Visits(p) == Cardinality({ k \in 1..Len(positions) : positions[k] = p })

Returned == pc \in {"got_room", "done"}

TheResult == CHOOSE out \in result : TRUE

\* text.split('\n')
RECURSIVE SplitLines(_, _)
SplitLines(s, line) ==
    IF s = <<>> THEN <<line>>
    ELSE IF Head(s) = "\n" THEN <<line>> \o SplitLines(Tail(s), <<>>)
    ELSE SplitLines(Tail(s), Append(line, Head(s)))

\* The glyph the text shows for cell p of the room.
GlyphAt(out, p) == out[(p[2] + 1) * (room_size[1] + 3) + p[1] + 2]

\* Made of the hex digits 0-9, a-f, A-F only.
AllHex(h) == \A k \in 1..Len(h) : h[k] \in AsciiHexDigits

NothingProduced ==
    /\ directions = <<>>
    /\ i = 0
    /\ positions = <<>>
    /\ room = Counter
    /\ result = {}

(***************************************************************************)
(* C1.  In a room of positive width and height, from a start inside it,    *)
(* every position get_position has returned during the walk, and the       *)
(* current (in the end: the final) position, lies inside the room.         *)
(***************************************************************************)
C1_WalkStaysInRoom ==
    (RoomIsValid /\ InRoom(start)) =>
        /\ InRoom(current_position)
        /\ \A k \in 1..Len(positions) : InRoom(positions[k])

\* A finished walk of eight moves, one of them stopped by both walls of a corner.
C1_Witness ==
    /\ pc = "done"
    /\ RoomIsValid /\ InRoom(start)
    /\ Len(positions) = 8
    /\ \E k \in 2..Len(positions) : positions[k] = positions[k - 1]

(***************************************************************************)
(* C2.  Once get_room has returned, the counter holds 16 at the end        *)
(* position and, when the start is another cell, 15 at the start, whatever *)
(* the walk had counted there; every other cell holds its number of        *)
(* visits.  In the text the end cell shows 'E', also when it is the start  *)
(* cell, and a start cell that is not the end shows 'S'.                   *)
(***************************************************************************)
C2_SentinelsOverwrite ==
    /\ Returned =>
          /\ Count(room, current_position) = 16
          /\ start # current_position => Count(room, start) = 15
          /\ \A p \in DOMAIN room : p \notin {start, current_position} => room[p] = Visits(p)
    /\ pc = "done" =>
          /\ InRoom(current_position) => GlyphAt(TheResult, current_position) = "E"
          /\ (InRoom(start) /\ start # current_position) => GlyphAt(TheResult, start) = "S"

\* The walk came back to its start, for the second time at least, and ended there.
C2_Witness ==
    /\ pc = "done"
    /\ InRoom(start)
    /\ start = current_position
    /\ Visits(start) >= 2
    /\ GlyphAt(TheResult, start) = "E"

(***************************************************************************)
(* C3.  Once get_room has returned, every value of the counter lies in     *)
(* 0..16, and the text that display returns holds no '!'.                  *)
(***************************************************************************)
C3_CountsWithinGlyphTable ==
    /\ Returned => \A p \in DOMAIN room : room[p] \in 0..16
    /\ pc = "done" => \A k \in 1..Len(TheResult) : TheResult[k] # "!"

(***************************************************************************)
(* C4.  No object whose room has a dimension that is not positive, or      *)
(* whose start lies outside its room, ever gets to get_room or display.    *)
(***************************************************************************)
C4_InvalidConfigurationRejected ==
    pc # "idle" => (RoomIsValid /\ InRoom(start))

(***************************************************************************)
(* C5.  A call with a string of odd length raises from hex_to_dirs: no     *)
(* move is produced, no step of the walk is made, no counter is filled and *)
(* no text is returned.                                                    *)
(***************************************************************************)
C5_OddLengthRaises ==
    (pc # "idle" /\ Len(hex_string) % 2 = 1) =>
        /\ pc = "raised"
        /\ NothingProduced

(***************************************************************************)
(* C6.  A call with a string of even length that holds a character which   *)
(* is no hex digit raises, with no step of the walk made, no counter       *)
(* filled and no text returned.                                            *)
(***************************************************************************)
C6_NonHexRaises ==
    (pc # "idle" /\ Len(hex_string) % 2 = 0 /\ ~AllHex(hex_string)) =>
        /\ pc = "raised"
        /\ NothingProduced

LinesFitRoom ==
    LET lines == SplitLines(TheResult, <<>>)
    IN  /\ Len(lines) = room_size[2] + 2
        /\ \A k \in 1..Len(lines) : Len(lines[k]) = room_size[1] + 2

(***************************************************************************)
(* C7.  As claimed: the text display returns for a room of positive size   *)
(* has height+2 lines of width+2 characters each, under every label.       *)
(***************************************************************************)
C7_EveryLabelFits == (pc = "done" /\ RoomIsValid) => LinesFitRoom

\* The label is absent or empty, or it holds no line break and is, with its
\* two brackets, no wider than the room.
LabelFits ==
    \/ hashalg = {}
    \/ LET label == CHOOSE l \in hashalg : TRUE
       IN  \/ label = <<>>
           \/ /\ Len(label) + 2 <= room_size[1]
              /\ \A k \in 1..Len(label) : label[k] # "\n"

(***************************************************************************)
(* C7, amended.  The text display returns for a room of positive size has  *)
(* height+2 lines of width+2 characters each when the label is absent,     *)
(* empty, or without a line break and at most width-2 characters long.     *)
(***************************************************************************)
C7_FittingLabel == (pc = "done" /\ RoomIsValid /\ LabelFits) => LinesFitRoom

\* A label is shown with an odd number of dashes around it.
C7_Witness ==
    /\ pc = "done"
    /\ hashalg # {}
    /\ LabelFits
    /\ LET label == CHOOSE l \in hashalg : TRUE
       IN  label # <<>> /\ (room_size[1] - Len(label) - 2) % 2 = 1

MoveOfCode == <<NW, NE, SW, SE>>

ByteValue(h, b) == 16 * DigitValue(h[2 * b + 1]) + DigitValue(h[2 * b + 2])

(***************************************************************************)
(* C8.  A string of n bytes written in hex digits is accepted and gives    *)
(* 4n moves; move 4b+j (b the byte, j in 0..3, both from 0) is the one     *)
(* that 00->NW, 01->NE, 10->SW, 11->SE gives for bits 2j+1 and 2j of the   *)
(* byte: the lowest pair of bits first, the highest last.                  *)
(***************************************************************************)
C8_MovesLowPairFirst ==
    (pc # "idle" /\ Len(hex_string) % 2 = 0 /\ AllHex(hex_string)) =>
        /\ pc # "raised"
        /\ Len(directions) = 4 * (Len(hex_string) \div 2)
        /\ \A b \in 0..((Len(hex_string) \div 2) - 1), j \in 0..3 :
              directions[4 * b + j + 1] =
                  MoveOfCode[((ByteValue(hex_string, b) \div (4 ^ j)) % 4) + 1]

\* Byte 1b holds the four bit pairs 00 01 10 11: its moves are SE SW NE NW.
C8_Witness ==
    /\ pc = "done"
    /\ hex_string = <<"1", "b", "E", "0">>
    /\ SubSeq(directions, 1, 4) = <<SE, SW, NE, NW>>

(***************************************************************************)
(* C9.  A call with the argument of the first completed call returns the   *)
(* text that call returned, whatever calls were made in between.           *)
(***************************************************************************)
C9_SameInputSameText ==
    (pc = "done" /\ first # {}) =>
        LET f == CHOOSE r \in first : TRUE
        IN  hex_string = f.hex => result = f.out

\* A later call repeats the first one after a call that failed or had another
\* argument, and its walk has made moves.
C9_Witness ==
    /\ pc = "done"
    /\ first # {}
    /\ LET f == CHOOSE r \in first : TRUE
       IN  f.other /\ hex_string = f.hex
    /\ Len(positions) > 0

ClampAxis(c, dimension) ==
    IF c < 0 THEN 0 ELSE IF c > dimension - 1 THEN dimension - 1 ELSE c

(***************************************************************************)
(* C10.  In a room of positive size a step of the walk moves each axis on  *)
(* its own: the coordinate goes to old + delta unless that is beyond a     *)
(* wall, and then stays at the wall.  The cell the step comes to, also     *)
(* when it is the cell it left, counts one more visit; no other cell       *)
(* changes.                                                                *)
(***************************************************************************)
C10_AxesClampIndependently ==
    [][(pc = "walking" /\ i' = i + 1 /\ RoomIsValid /\ InRoom(current_position)) =>
          LET move == directions[i']
          IN  /\ current_position' =
                    <<ClampAxis(current_position[1] + move[1], room_size[1]),
                      ClampAxis(current_position[2] + move[2], room_size[2])>>
              /\ Count(room', current_position') = Count(room, current_position') + 1
              /\ \A p \in (DOMAIN room) \cup (DOMAIN room') :
                    p # current_position' => Count(room', p) = Count(room, p)]_vars

\* The walk has made a move NW out of the corner (0, 0), which left it there
\* with one more visit, and a move NE along the top wall, which went one cell
\* to the right.
C10_Witness ==
    /\ pc = "walking"
    /\ RoomIsValid /\ InRoom(start)
    /\ \E k \in 2..Len(positions) :
          /\ positions[k - 1] = <<0, 0>>
          /\ directions[k] = NW
          /\ positions[k] = <<0, 0>>
          /\ Count(room, <<0, 0>>) >= 2
    /\ \E k \in 2..Len(positions) :
          /\ positions[k - 1][2] = 0
          /\ directions[k] = NE
          /\ positions[k] = <<positions[k - 1][1] + 1, 0>>

====
